---- MODULE Spec2Model ----
(***************************************************************************)
(* A model of dpd_demo.py, the DPD driver of pyHNC: the script builds the   *)
(* DPD pair potential on the radial grid, hands it to the HNC solver,       *)
(* integrates the solution into the energy density and the virial pressure, *)
(* prints the report, optionally runs the SunlightHNC reference engine and  *)
(* optionally plots g(r) and S(q).                                          *)
(*                                                                          *)
(* Numbers.  The script computes in IEEE doubles; the model computes in     *)
(* exact rational arithmetic.  A rational is a pair <<n, d>> in lowest      *)
(* terms with d > 0, so that equal rationals are equal values.  A quantity  *)
(* that carries a factor of pi (e and p) is a pair <<a, b>> of rationals    *)
(* standing for a + b*pi.                                                   *)
(*                                                                          *)
(* Arrays.  A numpy 1-d array is a sequence of rationals.  Elementwise      *)
(* operators follow numpy's broadcasting rule for 1-d operands.             *)
(***************************************************************************)
EXTENDS Integers, Sequences, FiniteSets

VARIABLES args, pc, grid, phi, f, soln, e, p, stdout, w, wAccess, plots, err, stages

vars == <<args, pc, grid, phi, f, soln, e, p, stdout, w, wAccess, plots, err, stages>>

(***************************************************************************)
(* Bounds of the model.                                                     *)
(***************************************************************************)
\* the largest number of grid points ng of the working grid (r has ng-1 points)
MaxNg == 4
\* the number of points of the reference engine's grid
MaxWPoints == 4

(***************************************************************************)
(* Exact rational arithmetic.  The operations are functions of values, so   *)
(* that an argument is evaluated once however deep an expression nests.     *)
(***************************************************************************)
Q == Int \X Int

Abs(x) == IF x < 0 THEN -x ELSE x

GCD[a \in Nat, b \in Nat] == IF b = 0 THEN a ELSE GCD[b, a % b]

Lowest[n \in Int, d \in Int] ==
  LET s == IF d < 0 THEN -1 ELSE 1
      g == GCD[Abs(n), Abs(d)]
  IN  <<(s * n) \div g, (s * d) \div g>>

Rat(n, d) == Lowest[n, d]

R(n) == <<n, 1>>

Sum[x \in Q, y \in Q] == Lowest[x[1] * y[2] + y[1] * x[2], x[2] * y[2]]
Difference[x \in Q, y \in Q] == Lowest[x[1] * y[2] - y[1] * x[2], x[2] * y[2]]
Product[x \in Q, y \in Q] == Lowest[x[1] * y[1], x[2] * y[2]]
Quotient[x \in Q, y \in Q] == Lowest[x[1] * y[2], x[2] * y[1]]
Less[x \in Q, y \in Q] == x[1] * y[2] < y[1] * x[2]

RAdd(x, y) == Sum[x, y]
RSub(x, y) == Difference[x, y]
RMul(x, y) == Product[x, y]
RDiv(x, y) == Quotient[x, y]
RLt(x, y) == Less[x, y]
RPow2(x) == Product[x, x]
RPow3(x) == Product[x, Product[x, x]]

\* Python's int() of a float: truncation toward zero
Truncated[x \in Q] == IF x[1] >= 0 THEN x[1] \div x[2] ELSE -((-x[1]) \div x[2])
PyInt(x) == Truncated[x]

(***************************************************************************)
(* numpy on 1-d arrays.                                                     *)
(***************************************************************************)
Arrays == Seq(Q)

\* the length of the broadcast of two 1-d shapes, -1 when numpy raises
BroadcastLen(a, b) ==
  IF a = b THEN a ELSE IF a = 1 THEN b ELSE IF b = 1 THEN a ELSE -1

Item(x, i) == IF Len(x) = 1 THEN x[1] ELSE x[i]

\* x * y, elementwise (defined when the shapes broadcast)
Times[x \in Arrays, y \in Arrays] ==
  [i \in 1..BroadcastLen(Len(x), Len(y)) |-> RMul(Item(x, i), Item(y, i))]

ArrMul(x, y) == Times[x, y]

\* scalar + array, scalar * array and array / scalar
Shifted[c \in Q, x \in Arrays] == [i \in 1..Len(x) |-> RAdd(c, x[i])]
Scaled[c \in Q, x \in Arrays] == [i \in 1..Len(x) |-> RMul(c, x[i])]

ArrAddScalar(c, x) == Shifted[c, x]
ArrMulScalar(c, x) == Scaled[c, x]
ArrDivScalar(x, c) == Scaled[RDiv(R(1), c), x]

\* x[0:imax]: a slice clamps to the array's length
Sliced[x \in Arrays, imax \in Int] ==
  LET n == IF imax < 0 THEN 0 ELSE IF imax > Len(x) THEN Len(x) ELSE imax
  IN  [i \in 1..n |-> x[i]]

Slice(x, imax) == Sliced[x, imax]

\* x[mask] for a boolean mask of the same length
Selected[x \in Arrays, mask \in Seq(BOOLEAN)] ==
  IF Len(x) = 0 THEN <<>>
  ELSE IF mask[1] THEN <<x[1]>> \o Selected[Tail(x), Tail(mask)]
       ELSE Selected[Tail(x), Tail(mask)]

Masked(x, mask) == Selected[x, mask]

\* np.trapz(y, dx=dx): sum of dx*(y[i]+y[i+1])/2; 0 for fewer than two points
TrapzSum[y \in Arrays, i \in Nat] ==
  IF i >= Len(y) THEN R(0)
  ELSE RAdd(RDiv(RAdd(y[i], y[i + 1]), R(2)), TrapzSum[y, i + 1])

Trapz(y, dx) == RMul(dx, TrapzSum[y, 1])

(***************************************************************************)
(* The inputs: the parsed command line (lines 47-58).                       *)
(***************************************************************************)
\* --A and --rho (floats); 25 and 3 are the defaults
AValues == {R(-2), R(0), R(25)}
RhoValues == {R(1), R(3)}

\* --rmax and --qmax, the display windows
Windows == {[rmax |-> R(1), qmax |-> R(2)], [rmax |-> Rat(3, 2), qmax |-> R(1)]}

\* the grid arguments: ng points, spacing deltar in r and deltaq in q
GridArgs ==
  {[ng |-> n, deltar |-> d, deltaq |-> R(1)] : n \in 2..MaxNg, d \in {Rat(1, 2), Rat(2, 3)}}

ArgSets ==
  [A : AValues, rho : RhoValues, window : Windows, gridargs : GridArgs,
   sunlight : BOOLEAN, show : BOOLEAN]

\* a value not computed yet
NoValue == <<>>

\* the reference engine before "from oz import wizard as w"
NoEngine == [state |-> "untouched"]

Init ==
  /\ args \in ArgSets
  /\ pc = "grid"
  /\ grid = NoValue
  /\ phi = NoValue
  /\ f = NoValue
  /\ soln = NoValue
  /\ e = NoValue
  /\ p = NoValue
  /\ stdout = <<>>
  /\ w = NoEngine
  /\ wAccess = {}
  /\ plots = <<>>
  /\ err = "none"
  /\ stages = <<>>

(***************************************************************************)
(* The working grid, line 60: r[i] = i*deltar and q[i] = i*deltaq           *)
(* for i = 1 .. ng-1 (the arrays are all of size ng-1, line 65).            *)
(***************************************************************************)
Grid(ga) ==
  [r |-> [i \in 1..(ga.ng - 1) |-> RMul(R(i), ga.deltar)],
   deltar |-> ga.deltar,
   q |-> [i \in 1..(ga.ng - 1) |-> RMul(R(i), ga.deltaq)],
   version |-> "pyHNC-version"]

BuildGrid ==
  /\ pc = "grid"
  /\ grid' = Grid(args.gridargs)
  /\ stages' = Append(stages, "grid")
  /\ pc' = "potential"
  /\ UNCHANGED <<args, phi, f, soln, e, p, stdout, w, wAccess, plots, err>>

(***************************************************************************)
(* The DPD potential and force, lines 67-68.                                *)
(***************************************************************************)
\* truncate_to_zero(v, r, rc): v where r < rc, else 0
truncate_to_zero(v, r, rc) ==
  [i \in 1..Len(v) |-> IF RLt(r[i], rc) THEN v[i] ELSE R(0)]

\* a slip in the potential: the factor 1/2 is lost
PotentialExprNoHalf(A, r) ==
  [i \in 1..Len(r) |-> RMul(A, RPow2(RSub(R(1), r[i])))]

\* A/2*(1-r)**2
PotentialExpr(A, r) ==
  [i \in 1..Len(r) |-> RMul(RDiv(A, R(2)), RPow2(RSub(R(1), r[i])))]

\* A*(1-r)
ForceExpr(A, r) ==
  [i \in 1..Len(r) |-> RMul(A, RSub(R(1), r[i]))]

BuildPotential ==
  /\ pc = "potential"
  /\ phi' = truncate_to_zero(PotentialExpr(args.A, grid.r), grid.r, R(1))
  /\ f' = truncate_to_zero(ForceExpr(args.A, grid.r), grid.r, R(1))
  /\ stages' = Append(stages, "potential")
  /\ pc' = "solve"
  /\ UNCHANGED <<args, grid, soln, e, p, stdout, w, wAccess, plots, err>>

(***************************************************************************)
(* solver.solve(phi, rho), lines 70-72.  The solver is an external          *)
(* collaborator: it returns some hr and hq, or raises.  The script checks   *)
(* nothing about what it gets, so hr and hq may have any length (here up to *)
(* one more than the grid's).                                               *)
(***************************************************************************)
HValues == {R(-1), R(0), Rat(1, 2)}

SolverOutputs(n) ==
  [hr : UNION {[1..m -> HValues] : m \in 0..(n + 1)},
   hq : {[i \in 1..n |-> R(1)], [i \in 1..(n + 1) |-> R(0)]}]

\* a slip in the solver call: a failure to converge is noted and the run
\* goes on with whatever the solver holds
SolveIgnoringFailure ==
  /\ pc = "solve"
  /\ stages' = Append(stages, "solve")
  /\ soln' \in SolverOutputs(Len(grid.r))
  /\ pc' = "integrate"
  /\ err' \in {err, "SolverDidNotConverge"}
  /\ UNCHANGED <<args, grid, phi, f, e, p, stdout, w, wAccess, plots>>

Solve ==
  /\ pc = "solve"
  /\ stages' = Append(stages, "solve")
  /\ \/ /\ soln' \in SolverOutputs(Len(grid.r))
        /\ pc' = "integrate"
        /\ err' = err
     \/ /\ soln' = soln
        /\ pc' = "aborted"
        /\ err' = "SolverDidNotConverge"
  /\ UNCHANGED <<args, grid, phi, f, e, p, stdout, w, wAccess, plots>>

(***************************************************************************)
(* The energy density and the virial pressure, lines 85-86.                 *)
(***************************************************************************)
\* whether r**2*phi*hr (and r**3*f*hr) broadcast
Broadcasts(r, h) == BroadcastLen(Len(r), Len(h)) >= 0

\* a slip in the energy density: the mean-field term is re-derived by the
\* quadrature (the integrand uses g = 1 + h) instead of added as A/60
EnergyDensityNumeric(A, rho, r, deltar, ph, hr) ==
  LET r2 == [i \in 1..Len(r) |-> RPow2(r[i])]
      integrand == ArrMul(ArrMul(r2, ph), ArrAddScalar(R(1), hr))
  IN  <<R(0), RMul(RMul(R(2), RPow2(rho)), Trapz(integrand, deltar))>>

\* e = 2*pi*rho**2 * (A/60 + np.trapz(r**2*phi*hr, dx=deltar))
EnergyDensity(A, rho, r, deltar, ph, hr) ==
  LET r2 == [i \in 1..Len(r) |-> RPow2(r[i])]
      integrand == ArrMul(ArrMul(r2, ph), hr)
  IN  <<R(0),
        RMul(RMul(R(2), RPow2(rho)),
             RAdd(RDiv(A, R(60)), Trapz(integrand, deltar)))>>

\* a slip in the pressure: the ideal-gas term rho is lost
PressureExcessOnly(A, rho, r, deltar, fr, hr) ==
  LET r3 == [i \in 1..Len(r) |-> RPow3(r[i])]
      integrand == ArrMul(ArrMul(r3, fr), hr)
  IN  <<R(0),
        RMul(RDiv(RMul(R(2), RPow2(rho)), R(3)),
             RAdd(RDiv(A, R(20)), Trapz(integrand, deltar)))>>

\* p = rho + 2*pi*rho**2/3 * (A/20 + np.trapz(r**3*f*hr, dx=deltar))
Pressure(A, rho, r, deltar, fr, hr) ==
  LET r3 == [i \in 1..Len(r) |-> RPow3(r[i])]
      integrand == ArrMul(ArrMul(r3, fr), hr)
  IN  <<rho,
        RMul(RDiv(RMul(R(2), RPow2(rho)), R(3)),
             RAdd(RDiv(A, R(20)), Trapz(integrand, deltar)))>>

Integrate ==
  /\ pc = "integrate"
  /\ stages' = Append(stages, "integrate")
  /\ IF Broadcasts(grid.r, soln.hr)
     THEN /\ e' = EnergyDensity(args.A, args.rho, grid.r, grid.deltar, phi, soln.hr)
          /\ p' = Pressure(args.A, args.rho, grid.r, grid.deltar, f, soln.hr)
          /\ pc' = "report"
          /\ err' = err
     ELSE /\ e' = e
          /\ p' = p
          /\ pc' = "aborted"
          /\ err' = "ShapeMismatch"
  /\ UNCHANGED <<args, grid, phi, f, soln, stdout, w, wAccess, plots>>

(***************************************************************************)
(* The report, lines 88-92.  A printed line is the format it was printed    *)
(* with (tag) and the tuple of arguments the format was applied to, in the  *)
(* order of the format's fields.                                            *)
(***************************************************************************)
ModelLine(A, rho) == [tag |-> "Model", version |-> "", fields |-> <<A, rho>>]

\* the literature values, energy density 13.63 and virial pressure 23.65
MonteCarloLine ==
  [tag |-> "Monte-Carlo", version |-> "", fields |-> <<Rat(1363, 100), Rat(2365, 100)>>]

CoreLine(version, en, pr) == [tag |-> "pyHNC", version |-> version, fields |-> <<en, pr>>]

\* a slip in the report: the literature line printed when either parameter
\* has its canonical value
ReportLinesEitherCanonical(A, rho, version, en, pr) ==
  <<ModelLine(A, rho)>>
    \o (IF A = R(25) \/ rho = R(3) THEN <<MonteCarloLine>> ELSE <<>>)
    \o <<CoreLine(version, en, pr)>>

ReportLines(A, rho, version, en, pr) ==
  <<ModelLine(A, rho)>>
    \o (IF A = R(25) /\ rho = R(3) THEN <<MonteCarloLine>> ELSE <<>>)
    \o <<CoreLine(version, en, pr)>>

\* a slip in the branch: the reference block entered whatever --sunlight says
AfterReportAlwaysReference == "reference"

\* a slip in the branch: the plots entered whatever --show says
AfterReferenceAlwaysPlot == "plot"

\* where the run goes after the report, and after the reference block
AfterReport == IF args.sunlight THEN "reference" ELSE IF args.show THEN "plot" ELSE "done"
AfterReference == IF args.show THEN "plot" ELSE "done"

Report ==
  /\ pc = "report"
  /\ stages' = Append(stages, "report")
  /\ stdout' = stdout \o ReportLines(args.A, args.rho, grid.version, e, p)
  /\ pc' = AfterReport
  /\ UNCHANGED <<args, grid, phi, f, soln, e, p, w, wAccess, plots, err>>

(***************************************************************************)
(* The reference engine, lines 94-105.  The engine (oz.wizard) is external: *)
(* it has its own grid of spacing deltar (deltak), whose first point is     *)
(* the origin or one spacing away from it, and it returns some values or    *)
(* fails.                                                                   *)
(***************************************************************************)
EngineGrid(d, origin) == [i \in 1..MaxWPoints |-> RMul(R(i - 1 + origin), d)]

EngineOutputs(rho) ==
  {[deltar |-> d, deltak |-> d,
    r |-> EngineGrid(d, o), k |-> EngineGrid(d, o),
    hr |-> [i \in 1..MaxWPoints |-> IF i = 1 THEN R(-1) ELSE R(0)],
    sk |-> [i \in 1..MaxWPoints |-> rho],
    uex |-> R(14), press |-> R(24), version |-> "oz-version"] :
     d \in {Rat(1, 2), R(1)}, o \in {0, 1}}

SunlightLine(version, uex, press) ==
  [tag |-> "SunlightHNC", version |-> version, fields |-> <<uex, press>>]

\* a slip in the reference block: the engine's energy and pressure are
\* written over the core's
ReferenceLeavesMerging ==
  /\ e' = IF w'.state = "solved" THEN <<w'.out.uex, R(0)>> ELSE e
  /\ p' = IF w'.state = "solved" THEN <<w'.out.press, R(0)>> ELSE p
  /\ UNCHANGED <<args, grid, phi, f, soln, plots>>

\* what the reference block assigns nothing to
ReferenceLeaves == UNCHANGED <<args, grid, phi, f, soln, e, p, plots>>

Reference ==
  /\ pc = "reference"
  /\ stages' = Append(stages, "reference")
  /\ \/ \* the import or w.initialise() raises
        /\ wAccess' = wAccess \cup {"initialise"}
        /\ w' = w
        /\ stdout' = stdout
        /\ err' = "ReferenceUnavailable"
        /\ pc' = "aborted"
     \/ \* w.hnc_solve() raises
        /\ wAccess' = wAccess \cup {"initialise", "configure", "solve"}
        /\ w' = [state |-> "configured", arep |-> args.A, rho |-> args.rho]
        /\ stdout' = stdout
        /\ err' = "ReferenceUnavailable"
        /\ pc' = "aborted"
     \/ \* the engine solves and its line is printed
        /\ wAccess' = wAccess \cup {"initialise", "configure", "solve", "read"}
        /\ \E out \in EngineOutputs(args.rho) :
             /\ w' = [state |-> "solved", arep |-> args.A, rho |-> args.rho, out |-> out]
             /\ stdout' = Append(stdout, SunlightLine(out.version, out.uex, out.press))
        /\ err' = err
        /\ pc' = AfterReference
  /\ ReferenceLeaves

(***************************************************************************)
(* The plots, lines 107-136.  A curve handed to the plotter is the figure   *)
(* it goes to, its x and y arrays and its style.                            *)
(***************************************************************************)
\* r < rmax: a boolean mask
Below(x, xmax) == [i \in 1..Len(x) |-> RLt(x[i], xmax)]

\* plt.plot(x[cut], y[cut], style)
CoreCurve(fig, x, y, cut, style) ==
  [fig |-> fig, source |-> "core", x |-> Masked(x, cut), y |-> Masked(y, cut), style |-> style]

\* plt.plot(x[0:imax], y[0:imax], '.') with imax = int(xmax / delta)
ReferenceCurve(fig, x, y, xmax, delta) ==
  LET imax == PyInt(RDiv(xmax, delta))
  IN  [fig |-> fig, source |-> "reference", x |-> Slice(x, imax), y |-> Slice(y, imax),
       style |-> "."]

\* the calls of one figure: the curves plotted, and whether the figure was
\* completed (a boolean mask of another length than the array raises)
Figure(fig, x, y, xmax, sunlight, refx, refy, delta) ==
  LET cut == Below(x, xmax)
      ref == IF sunlight THEN <<ReferenceCurve(fig, refx, refy, xmax, delta)>> ELSE <<>>
  IN  IF Len(y) = Len(cut)
      THEN [ok |-> TRUE,
            curves |-> ref \o <<CoreCurve(fig, x, y, cut, IF sunlight THEN "--" ELSE "-")>>]
      ELSE [ok |-> FALSE, curves |-> ref]

\* gr = 1.0 + hr and sq = 1.0 + rho*hq
PairFunction(hr) == ArrAddScalar(R(1), hr)
StructureFactor(rho, hq) == ArrAddScalar(R(1), ArrMulScalar(rho, hq))

FigureG ==
  IF args.sunlight
  THEN Figure(1, grid.r, PairFunction(soln.hr), args.window.rmax, TRUE,
              w.out.r, ArrAddScalar(R(1), w.out.hr), w.out.deltar)
  ELSE Figure(1, grid.r, PairFunction(soln.hr), args.window.rmax, FALSE, <<>>, <<>>, R(1))

FigureS ==
  IF args.sunlight
  THEN Figure(2, grid.q, StructureFactor(args.rho, soln.hq), args.window.qmax, TRUE,
              w.out.k, ArrDivScalar(w.out.sk, args.rho), w.out.deltak)
  ELSE Figure(2, grid.q, StructureFactor(args.rho, soln.hq), args.window.qmax, FALSE,
              <<>>, <<>>, R(1))

Plot ==
  /\ pc = "plot"
  /\ stages' = Append(stages, "plot")
  /\ wAccess' = IF args.sunlight THEN wAccess \cup {"read"} ELSE wAccess
  /\ IF ~FigureG.ok
     THEN /\ plots' = plots \o FigureG.curves
          /\ err' = "IndexError"
          /\ pc' = "aborted"
     ELSE IF ~FigureS.ok
     THEN /\ plots' = plots \o FigureG.curves \o FigureS.curves
          /\ err' = "IndexError"
          /\ pc' = "aborted"
     ELSE /\ plots' = plots \o FigureG.curves \o FigureS.curves
          /\ err' = err
          /\ pc' = "done"
  /\ UNCHANGED <<args, grid, phi, f, soln, e, p, stdout, w>>

(***************************************************************************)
(* The script: one pass through the module body.                            *)
(***************************************************************************)
Next ==
  \/ BuildGrid
  \/ BuildPotential
  \/ Solve
  \/ Integrate
  \/ Report
  \/ Reference
  \/ Plot

Spec == Init /\ [][Next]_vars

\* every statement of the script that can run does run
FairSpec == Spec /\ WF_vars(Next)

(***************************************************************************)
(* Properties.                                                              *)
(***************************************************************************)
Ran(stage) == \E i \in 1..Len(stages) : stages[i] = stage

AllZero(x) == \A i \in 1..Len(x) : x[i] = R(0)

\* C1: at every grid point r the potential is (A/2)(1-r)^2 and the force is
\* A(1-r) when r < 1, and both are exactly 0 when r >= 1 (r = 1 included);
\* this holds for every A, every density and in every later state of the run.
C1_PotentialAndForce ==
  Ran("potential") =>
    /\ Len(phi) = Len(grid.r)
    /\ Len(f) = Len(grid.r)
    /\ \A i \in 1..Len(grid.r) :
         LET x == grid.r[i]
         IN  IF x[1] < x[2]
             THEN /\ RMul(R(2), phi[i])
                       = RMul(args.A, RAdd(RSub(R(1), RMul(R(2), x)), RMul(x, x)))
                  /\ f[i] = RSub(args.A, RMul(args.A, x))
             ELSE /\ phi[i] = R(0)
                  /\ f[i] = R(0)

\* a grid with a point below, at and above the cutoff, and A = 25
C1_Witness ==
  /\ Ran("potential")
  /\ args.A = R(25)
  /\ grid.r = <<Rat(1, 2), R(1), Rat(3, 2)>>
  /\ phi = <<Rat(25, 8), R(0), R(0)>>
  /\ f = <<Rat(25, 2), R(0), R(0)>>

\* C2: when h is 0 at every grid point, integrate returns the mean-field
\* terms alone: e = 2 pi rho^2 A/60 and p = rho + 2 pi rho^2 A/20/3.
C2_MeanFieldLimit ==
  (Ran("integrate") /\ err = "none" /\ Len(soln.hr) = Len(grid.r) /\ AllZero(soln.hr)) =>
    /\ e = <<R(0), RDiv(RMul(RMul(R(2), RMul(args.rho, args.rho)), args.A), R(60))>>
    /\ p = <<args.rho,
             RDiv(RDiv(RMul(RMul(R(2), RMul(args.rho, args.rho)), args.A), R(20)), R(3))>>

\* h = 0 on a three-point grid that reaches inside the cutoff, A = 25, rho = 3
C2_Witness ==
  /\ Ran("integrate")
  /\ args.A = R(25)
  /\ args.rho = R(3)
  /\ Len(grid.r) = 3
  /\ soln.hr = <<R(0), R(0), R(0)>>
  /\ e = <<R(0), Rat(15, 2)>>
  /\ p = <<R(3), Rat(15, 2)>>

\* C3: for A = 0 the potential and the force are zero at every grid point,
\* and for any h for which integrate returns, e = 0 and p = rho.
C3_NoRepulsion ==
  args.A = R(0) =>
    /\ Ran("potential") => (AllZero(phi) /\ AllZero(f) /\ Len(phi) = Len(grid.r))
    /\ (Ran("integrate") /\ err = "none") => (e = <<R(0), R(0)>> /\ p = <<args.rho, R(0)>>)

\* A = 0 with an h that is not zero inside the cutoff, rho = 3
C3_Witness ==
  /\ args.A = R(0)
  /\ args.rho = R(3)
  /\ Ran("integrate")
  /\ Len(grid.r) = 3
  /\ soln.hr = <<R(-1), R(-1), R(0)>>
  /\ p = <<R(3), R(0)>>

\* C4: integrate given an h of another length than the grid fails with
\* ShapeMismatch and produces no e and no p.
C4_MismatchAlwaysRaises ==
  (Ran("integrate") /\ Len(soln.hr) # Len(grid.r)) =>
    /\ err = "ShapeMismatch"
    /\ e = NoValue
    /\ p = NoValue

Tags(lines) == [i \in 1..Len(lines) |-> lines[i].tag]

IsPrefix(x, y) == Len(x) <= Len(y) /\ \A i \in 1..Len(x) : x[i] = y[i]

Canonical == args.A = R(25) /\ args.rho = R(3)

\* the lines of a complete report, in order
ExpectedTags ==
  <<"Model">>
    \o (IF Canonical THEN <<"Monte-Carlo">> ELSE <<>>)
    \o <<"pyHNC">>
    \o (IF args.sunlight THEN <<"SunlightHNC">> ELSE <<>>)

ReportComplete == Ran("report") /\ (args.sunlight => w.state = "solved")

\* C5: the report is, in this order, one model line, the Monte-Carlo line
\* iff A = 25 and rho = 3, one line of the core's values, and the reference
\* line iff --sunlight; what is printed at any time is a beginning of it,
\* and every value line holds the energy density before the pressure.
C5_ReportOrder ==
  /\ IsPrefix(Tags(stdout), ExpectedTags)
  /\ ReportComplete => Tags(stdout) = ExpectedTags
  /\ \A i \in 1..Len(stdout) :
       /\ stdout[i].tag = "Model" => stdout[i].fields = <<args.A, args.rho>>
       /\ stdout[i].tag = "Monte-Carlo" => stdout[i].fields = <<Rat(1363, 100), Rat(2365, 100)>>
       /\ stdout[i].tag = "pyHNC" => stdout[i].fields = <<e, p>>
       /\ stdout[i].tag = "SunlightHNC" => stdout[i].fields = <<w.out.uex, w.out.press>>

\* the canonical case with --sunlight: all four lines
C5_Witness ==
  /\ pc = "done"
  /\ Canonical
  /\ args.sunlight
  /\ Tags(stdout) = <<"Model", "Monte-Carlo", "pyHNC", "SunlightHNC">>

CoreCurves == {i \in 1..Len(plots) : plots[i].source = "core"}
ReferenceCurves == {i \in 1..Len(plots) : plots[i].source = "reference"}

\* C6: after the integration e and p are what integrate computed from
\* (A, rho, grid, potential, h), with or without --sunlight; the core's line
\* prints them and the core's curves are 1 + h and 1 + rho*hq; the reference
\* engine is touched only after e and p exist and were printed.
C6_ReferenceNeverMerged ==
  /\ (Ran("integrate") /\ err # "ShapeMismatch") =>
       /\ e = EnergyDensity(args.A, args.rho, grid.r, grid.deltar, phi, soln.hr)
       /\ p = Pressure(args.A, args.rho, grid.r, grid.deltar, f, soln.hr)
  /\ Ran("report") => \E i \in 1..Len(stdout) : stdout[i] = CoreLine(grid.version, e, p)
  /\ (w.state # "untouched" \/ wAccess # {}) => (Ran("report") /\ e # NoValue /\ p # NoValue)
  /\ \A i \in CoreCurves :
       IF plots[i].fig = 1
       THEN plots[i].y = Masked(ArrAddScalar(R(1), soln.hr), Below(grid.r, args.window.rmax))
       ELSE plots[i].y = Masked(ArrAddScalar(R(1), ArrMulScalar(args.rho, soln.hq)),
                                Below(grid.q, args.window.qmax))

\* a run with --sunlight and --show that solved the reference and plotted
C6_Witness ==
  /\ pc = "done"
  /\ args.sunlight
  /\ args.show
  /\ w.state = "solved"
  /\ Len(plots) = 4
  /\ e # <<w.out.uex, R(0)>>

\* C7: without --sunlight the reference engine is never initialised,
\* configured, solved or read, the plots hold no reference curve and no
\* ReferenceUnavailable occurs; with --sunlight a failure of the engine
\* ends the run: nothing is printed for it, nothing is plotted, no step follows.
C7_ReferenceOnlyOnRequest ==
  /\ ~args.sunlight =>
       /\ w = NoEngine
       /\ wAccess = {}
       /\ ~Ran("reference")
       /\ ReferenceCurves = {}
       /\ err # "ReferenceUnavailable"
  /\ (Ran("reference") /\ w.state # "solved") =>
       /\ err = "ReferenceUnavailable"
       /\ pc = "aborted"
       /\ ~ENABLED Next
       /\ plots = <<>>
       /\ \A i \in 1..Len(stdout) : stdout[i].tag # "SunlightHNC"
  /\ err = "ReferenceUnavailable" => (args.sunlight /\ pc = "aborted")

\* a run without --sunlight, with --show, that has plotted both figures
C7_Witness ==
  /\ pc = "done"
  /\ ~args.sunlight
  /\ args.show
  /\ Len(plots) = 2
  /\ wAccess = {}

Count(stage) == Cardinality({i \in 1..Len(stages) : stages[i] = stage})

\* C8: when the solver reports non-convergence or integrate raises a shape
\* mismatch the run is aborted with that error: the solver was called once,
\* no report, reference solve or plot has run or will run, and nothing was
\* printed.
C8_NoRecovery ==
  /\ err \in {"SolverDidNotConverge", "ShapeMismatch"} =>
       /\ pc = "aborted"
       /\ ~ENABLED Next
       /\ Count("solve") = 1
       /\ ~Ran("report") /\ ~Ran("reference") /\ ~Ran("plot")
       /\ stdout = <<>>
       /\ plots = <<>>
       /\ wAccess = {}
       /\ e = NoValue /\ p = NoValue
  /\ err = "SolverDidNotConverge" => (~Ran("integrate") /\ soln = NoValue)
  /\ (pc = "aborted" /\ ~Ran("report")) => err \in {"SolverDidNotConverge", "ShapeMismatch"}

\* integrate raised on an h it could not broadcast
C8_Witness ==
  /\ err = "ShapeMismatch"
  /\ stages = <<"grid", "potential", "solve", "integrate">>
  /\ Len(soln.hr) # Len(grid.r)

Window(curve) == IF curve.fig = 1 THEN args.window.rmax ELSE args.window.qmax

Aligned == Len(soln.hr) = Len(grid.r) /\ Len(soln.hq) = Len(grid.q)

\* C9: with the solver's arrays aligned to the grid, every point handed to
\* the plotter lies inside its display window (r < rmax in the g(r) figure,
\* q < qmax in the S(q) figure), for the core's curves and for the reference
\* engine's, and the core's curves are g = 1 + h and S = 1 + rho*hq.
C9_PlottedInsideWindow ==
  (Ran("plot") /\ Aligned) =>
  \A i \in 1..Len(plots) :
    /\ \A j \in 1..Len(plots[i].x) : RLt(plots[i].x[j], Window(plots[i]))
    /\ Len(plots[i].y) = Len(plots[i].x)
    /\ (plots[i].source = "core" /\ plots[i].fig = 1) =>
         plots[i].y = [j \in 1..Len(plots[i].x) |-> RAdd(R(1), soln.hr[j])]
    /\ (plots[i].source = "core" /\ plots[i].fig = 2) =>
         plots[i].y = [j \in 1..Len(plots[i].x) |-> RAdd(R(1), RMul(args.rho, soln.hq[j]))]

\* the part of C9 that is about the core's own curves
C9_CoreInsideWindow ==
  \A i \in CoreCurves :
    \A j \in 1..Len(plots[i].x) : RLt(plots[i].x[j], Window(plots[i]))

StageOrder == <<"grid", "potential", "solve", "integrate", "report", "reference", "plot">>

Index(stage) == CHOOSE i \in 1..Len(StageOrder) : StageOrder[i] = stage

Terminated == pc \in {"done", "aborted"}

\* the stages run so far are in the order of the pass, each at most once,
\* none of the first five skipped, the optional ones only on request
C10_Order ==
  /\ \A i \in 1..(Len(stages) - 1) : Index(stages[i]) < Index(stages[i + 1])
  /\ \A i \in 1..Len(stages) : i <= 5 => stages[i] = StageOrder[i]
  /\ Ran("reference") => args.sunlight
  /\ Ran("plot") => args.show
  /\ ~Terminated =>
       /\ pc \in {StageOrder[i] : i \in 1..Len(StageOrder)}
       /\ \A i \in 1..Len(stages) : Index(stages[i]) < Index(pc)
  /\ pc = "done" =>
       /\ Ran("report")
       /\ args.sunlight => Ran("reference")
       /\ args.show => Ran("plot")

\* C10: a run is one linear pass: grid, potential, solve, integrate, report,
\* then the reference solve and the plot when asked for, each stage at most
\* once and in this order; and the run terminates.
C10_SinglePass == []C10_Order /\ <>Terminated

\* a run through all seven stages
C10_Witness ==
  /\ pc = "done"
  /\ stages = StageOrder

====
